---- MODULE Spec2Model ----
(***************************************************************************)
(* Model of clear_firestore.py: the bulk deletion runner that deletes      *)
(* every document of every collection of a Firestore database in batches   *)
(* of batch_size deletes, and the __main__ block that turns its boolean    *)
(* result into the process exit status.                                    *)
(*                                                                         *)
(* The remote store is the variable store (collection id -> set of         *)
(* document ids).  Every remote call of the script (credentials/app        *)
(* initialisation, client construction, collections(), the pulls of the    *)
(* two lazy iterators, stream(), batch.commit()) either succeeds or        *)
(* raises; both outcomes are explored.                                     *)
(***************************************************************************)
EXTENDS Integers, Sequences, FiniteSets, TLC

\* ---------------------------------------------------------------- bounds
MaxColls == 2      \* at most this many top-level collections in the store
MaxDocs  == 251    \* at most this many documents in the store
MaxRuns  == 2      \* the script is invoked at most this many times

\* ------------------------------------------------------ program constants
batch_size == 100

\* Document counts a collection starts with: the multiples of the batch
\* size, their neighbours, and one and a half batches.
DocCounts ==
  {n \in 0..MaxDocs : n % batch_size \in {0, 1, batch_size - 1} \/ n = batch_size + 50}

VARIABLES
  pc,               \* position of the process in the script
  run,              \* number of the current invocation of the script
  store,            \* remote store: collection id -> set of document ids
  store0,           \* the store as it was when the current run started
  collections,      \* the collection iterator: ids still to be yielded
  collection_name,  \* id of the collection being processed (0: none yet)
  docs,             \* the document iterator: ids still to be yielded
  batch,            \* pending deletes of the current batch object
  count_in_batch,
  collection_count,
  total_deleted,
  success,          \* value returned by clear_firestore ("none" before)
  exitCode,         \* process exit status (-1 while running)
  escaped,          \* an exception left clear_firestore unhandled
  failedAt,         \* the site of the first remote call that raised
  out,              \* lines printed, in order
  calls,            \* remote calls issued by this run, in order
  deletes           \* number of batch.delete calls of this run

vars == <<pc, run, store, store0, collections, collection_name, docs, batch,
          count_in_batch, collection_count, total_deleted, success, exitCode,
          escaped, failedAt, out, calls, deletes>>

\* ---------------------------------------------------------------- helpers
Line(k, c, n) == [kind |-> k, coll |-> c, n |-> n]
Call(o, c, refs, n, ok) == [op |-> o, coll |-> c, refs |-> refs, n |-> n, ok |-> ok]

Min(S) == CHOOSE x \in S : \A y \in S : x <= y

Range(s) == {s[i] : i \in 1..Len(s)}

RECURSIVE SumN(_)
SumN(s) == IF s = <<>> THEN 0 ELSE s[1].n + SumN(Tail(s))

IsSummary(l) == l.kind = "summary"
IsOkCommit(r) == r.op = "commit" /\ r.ok
IsCommit(r) == r.op = "commit"

RECURSIVE SumSeq(_)
SumSeq(s) == IF s = <<>> THEN 0 ELSE s[1] + SumSeq(Tail(s))

\* The stores of at most MaxColls collections and MaxDocs documents; the
\* documents of a collection of n documents have the ids 1..n.
Stores ==
  {[c \in DOMAIN t |-> 1..t[c]] :
     t \in {u \in UNION {[1..k -> DocCounts] : k \in 0..MaxColls} :
              SumSeq(u) <= MaxDocs}}

StoreEmpty(s) == \A c \in DOMAIN s : s[c] = {}

\* The ids, in order, that db.collections() yields.
CollectionIds(s) == [i \in 1..Len(s) |-> i]

\* Effect of an atomic batch of deletes on the remote store.
ApplyDeletes(s, refs) ==
  [c \in DOMAIN s |-> s[c] \ {r[2] : r \in {q \in Range(refs) : q[1] = c}}]

\* ------------------------------------------------- decisions of the code
\* line 55: if count_in_batch >= batch_size
BatchFull_gt(n) == n > batch_size
BatchFull(n) == n >= batch_size

\* line 62: if count_in_batch > 0
HasRemainder_ge(n) == n >= 0
HasRemainder(n) == n > 0

\* line 58: batch = db.batch()
BatchAfterCommit_keep(b) == b
BatchAfterCommit(b) == SubSeq(b, 1, 0)

\* line 59: count_in_batch = 0
CountAfterCommit_keep(n) == n
CountAfterCommit(n) == n - n

\* line 44: batch = db.batch(), a fresh batch for every collection
BatchForCollection_reuse(b) == b
BatchForCollection(b) == SubSeq(b, 1, 0)

\* line 67: total_deleted += collection_count
AddToTotal_batch(t, cc, cib) == t + cib
AddToTotal(t, cc, cib) == t + cc

\* lines 22-25: the inner handler prints and returns False
AfterAuthFailure_fallthrough == "client"
AfterAuthFailure == "returned"

\* lines 11 and 73: the sites covered by the outer try / except Exception
Caught_nolist(site) == site \in {"client", "next", "stream", "pull", "commit"}
Caught(site) == site \in {"client", "list", "next", "stream", "pull", "commit"}

\* lines 73-75: the handler returns False; nothing is retried
AfterError_continue(site) == IF site = "commit" THEN "for_doc" ELSE "returned"
AfterError(site) == "returned"

\* lines 83-87: exit status from the boolean result
ExitStatus_zero(ok) == IF ok THEN 0 ELSE 0
ExitStatus(ok) == IF ok THEN 0 ELSE 1

\* ------------------------------------------------------------------ Init
Init ==
  /\ store \in Stores
  /\ store0 = store
  /\ pc = "start"
  /\ run = 1
  /\ collections = <<>>
  /\ collection_name = 0
  /\ docs = {}
  /\ batch = <<>>
  /\ count_in_batch = 0
  /\ collection_count = 0
  /\ total_deleted = 0
  /\ success = "none"
  /\ exitCode = -1
  /\ escaped = FALSE
  /\ failedAt = "none"
  /\ out = <<>>
  /\ calls = <<>>
  /\ deletes = 0

\* An exception raised by the remote call `site` (in collection c): the
\* outer handler (lines 73-75) prints and returns False when the site is
\* inside the try; otherwise the exception leaves the function.
Raise(site, c, refs) ==
  /\ calls' = Append(calls, Call(site, c, refs, Len(refs), FALSE))
  /\ failedAt' = IF failedAt = "none" THEN site ELSE failedAt
  /\ IF Caught(site)
       THEN /\ out' = Append(out, Line("error", c, 0))
            /\ pc' = AfterError(site)
            /\ success' = IF AfterError(site) = "returned" THEN "False" ELSE success
            /\ escaped' = escaped
       ELSE /\ out' = Append(out, Line("traceback", c, 0))
            /\ pc' = "crashed"
            /\ success' = success
            /\ escaped' = TRUE

\* lines 78-82: the banner, then the call of clear_firestore()
MainStart ==
  /\ pc = "start"
  /\ pc' = "auth"
  /\ out' = Append(out, Line("banner", 0, 0))
  /\ UNCHANGED <<run, store, store0, collections, collection_name, docs, batch,
                 count_in_batch, collection_count, total_deleted, success,
                 exitCode, escaped, failedAt, calls, deletes>>

\* lines 16-25: credentials and app initialisation, with the inner handler
Authenticate ==
  /\ pc = "auth"
  /\ \E ok \in BOOLEAN :
       IF ok
         THEN /\ calls' = Append(calls, Call("auth", 0, <<>>, 0, TRUE))
              /\ out' = Append(out, Line("initialized", 0, 0))
              /\ pc' = "client"
              /\ UNCHANGED <<success, failedAt>>
         ELSE /\ calls' = Append(calls, Call("auth", 0, <<>>, 0, FALSE))
              /\ failedAt' = "auth"
              /\ out' = Append(out, Line("authfail", 0, 0))
              /\ pc' = AfterAuthFailure
              /\ success' = IF AfterAuthFailure = "returned" THEN "False" ELSE success
  /\ UNCHANGED <<run, store, store0, collections, collection_name, docs, batch,
                 count_in_batch, collection_count, total_deleted, exitCode,
                 escaped, deletes>>

\* lines 28-29: db = firestore.client()
Connect ==
  /\ pc = "client"
  /\ \E ok \in BOOLEAN :
       IF ok
         THEN /\ calls' = Append(calls, Call("client", 0, <<>>, 0, TRUE))
              /\ out' = Append(out, Line("connected", 0, 0))
              /\ pc' = "list"
              /\ UNCHANGED <<success, failedAt, escaped>>
         ELSE Raise("client", 0, <<>>)
  /\ UNCHANGED <<run, store, store0, collections, collection_name, docs, batch,
                 count_in_batch, collection_count, total_deleted, exitCode,
                 deletes>>

\* lines 32-34: collections = db.collections(); total_deleted = 0
ListCollections ==
  /\ pc = "list"
  /\ \E ok \in BOOLEAN :
       IF ok
         THEN /\ calls' = Append(calls, Call("list", 0, <<>>, Len(store), TRUE))
              /\ collections' = CollectionIds(store)
              /\ total_deleted' = 0
              /\ pc' = "for_coll"
              /\ UNCHANGED <<success, failedAt, escaped, out>>
         ELSE /\ Raise("list", 0, <<>>)
              /\ UNCHANGED <<collections, total_deleted>>
  /\ UNCHANGED <<run, store, store0, collection_name, docs, batch,
                 count_in_batch, collection_count, exitCode, deletes>>

\* line 36 with lines 37-38 (next collection) or lines 69-71 (exhausted)
NextCollection ==
  /\ pc = "for_coll"
  /\ \/ /\ collections # <<>>
        /\ collection_name' = Head(collections)
        /\ collections' = Tail(collections)
        /\ out' = Append(out, Line("processing", Head(collections), 0))
        /\ pc' = "stream"
        /\ UNCHANGED <<success, failedAt, escaped, calls>>
     \/ /\ collections # <<>>
        /\ Raise("next", 0, <<>>)
        /\ UNCHANGED <<collections, collection_name>>
     \/ /\ collections = <<>>
        /\ out' = out \o <<Line("cleared", 0, 0), Line("total", 0, total_deleted)>>
        /\ success' = "True"
        /\ pc' = "returned"
        /\ UNCHANGED <<collections, collection_name, failedAt, escaped, calls>>
  /\ UNCHANGED <<run, store, store0, docs, batch, count_in_batch,
                 collection_count, total_deleted, exitCode, deletes>>

\* lines 41-46: docs = collection.stream() and the per-collection locals
StreamDocuments ==
  /\ pc = "stream"
  /\ \E ok \in BOOLEAN :
       IF ok
         THEN /\ calls' = Append(calls, Call("stream", collection_name, <<>>,
                                             Cardinality(store[collection_name]), TRUE))
              /\ docs' = store[collection_name]
              /\ batch' = BatchForCollection(batch)
              /\ count_in_batch' = 0
              /\ collection_count' = 0
              /\ pc' = "for_doc"
              /\ UNCHANGED <<success, failedAt, escaped, out>>
         ELSE /\ Raise("stream", collection_name, <<>>)
              /\ UNCHANGED <<docs, batch, count_in_batch, collection_count>>
  /\ UNCHANGED <<run, store, store0, collections, collection_name,
                 total_deleted, exitCode, deletes>>

\* lines 48-55: pull one document, add its delete to the batch, count it
NextDocument ==
  /\ pc = "for_doc"
  /\ \/ /\ docs # {}
        /\ LET d == Min(docs) IN
             /\ docs' = docs \ {d}
             /\ batch' = Append(batch, <<collection_name, d>>)
        /\ deletes' = deletes + 1
        /\ count_in_batch' = count_in_batch + 1
        /\ collection_count' = collection_count + 1
        /\ pc' = IF BatchFull(count_in_batch + 1) THEN "commit" ELSE "for_doc"
        /\ UNCHANGED <<success, failedAt, escaped, out, calls>>
     \/ /\ docs # {}
        /\ Raise("pull", collection_name, <<>>)
        /\ UNCHANGED <<docs, batch, deletes, count_in_batch, collection_count>>
     \/ /\ docs = {}
        /\ pc' = "final"
        /\ UNCHANGED <<docs, batch, deletes, count_in_batch, collection_count,
                       success, failedAt, escaped, out, calls>>
  /\ UNCHANGED <<run, store, store0, collections, collection_name,
                 total_deleted, exitCode>>

\* lines 56-59: commit the full batch, report it, start a fresh batch
CommitFullBatch ==
  /\ pc = "commit"
  /\ \E ok \in BOOLEAN :
       IF ok
         THEN /\ calls' = Append(calls, Call("commit", collection_name, batch,
                                             Len(batch), TRUE))
              /\ store' = ApplyDeletes(store, batch)
              /\ out' = Append(out, Line("batch", collection_name, count_in_batch))
              /\ batch' = BatchAfterCommit(batch)
              /\ count_in_batch' = CountAfterCommit(count_in_batch)
              /\ pc' = "for_doc"
              /\ UNCHANGED <<success, failedAt, escaped>>
         ELSE /\ Raise("commit", collection_name, batch)
              /\ UNCHANGED <<store, batch, count_in_batch>>
  /\ UNCHANGED <<run, store0, collections, collection_name, docs,
                 collection_count, total_deleted, exitCode, deletes>>

\* lines 62-67: commit the remaining deletes, then the collection summary
FinishCollection ==
  /\ pc = "final"
  /\ \/ /\ HasRemainder(count_in_batch)
        /\ calls' = Append(calls, Call("commit", collection_name, batch,
                                       Len(batch), TRUE))
        /\ store' = ApplyDeletes(store, batch)
        /\ out' = out \o <<Line("final", collection_name, count_in_batch),
                           Line("summary", collection_name, collection_count)>>
        /\ total_deleted' = AddToTotal(total_deleted, collection_count, count_in_batch)
        /\ pc' = "for_coll"
        /\ UNCHANGED <<success, failedAt, escaped>>
     \/ /\ HasRemainder(count_in_batch)
        /\ Raise("commit", collection_name, batch)
        /\ UNCHANGED <<store, total_deleted>>
     \/ /\ ~HasRemainder(count_in_batch)
        /\ out' = Append(out, Line("summary", collection_name, collection_count))
        /\ total_deleted' = AddToTotal(total_deleted, collection_count, count_in_batch)
        /\ pc' = "for_coll"
        /\ UNCHANGED <<store, success, failedAt, escaped, calls>>
  /\ UNCHANGED <<run, store0, collections, collection_name, docs, batch,
                 count_in_batch, collection_count, exitCode, deletes>>

\* lines 83-87: the exit status; an unhandled exception ends the process
\* with a traceback and status 1
MainExit ==
  /\ pc \in {"returned", "crashed"}
  /\ pc' = "exited"
  /\ IF pc = "crashed"
       THEN /\ exitCode' = 1
            /\ out' = out
       ELSE /\ exitCode' = ExitStatus(success = "True")
            /\ out' = Append(out, Line(IF success = "True" THEN "ok" ELSE "failed", 0, 0))
  /\ UNCHANGED <<run, store, store0, collections, collection_name, docs, batch,
                 count_in_batch, collection_count, total_deleted, success,
                 escaped, failedAt, calls, deletes>>

\* The operator runs the script again after a run that exited with status 0:
\* a new process, whose only inheritance is the remote store.
Rerun ==
  /\ pc = "exited"
  /\ exitCode = 0
  /\ run < MaxRuns
  /\ run' = run + 1
  /\ store0' = store
  /\ pc' = "start"
  /\ collections' = <<>>
  /\ collection_name' = 0
  /\ docs' = {}
  /\ batch' = <<>>
  /\ count_in_batch' = 0
  /\ collection_count' = 0
  /\ total_deleted' = 0
  /\ success' = "none"
  /\ exitCode' = -1
  /\ escaped' = FALSE
  /\ failedAt' = "none"
  /\ out' = <<>>
  /\ calls' = <<>>
  /\ deletes' = 0
  /\ UNCHANGED store

Next ==
  \/ MainStart
  \/ Authenticate
  \/ Connect
  \/ ListCollections
  \/ NextCollection
  \/ StreamDocuments
  \/ NextDocument
  \/ CommitFullBatch
  \/ FinishCollection
  \/ MainExit
  \/ Rerun

Spec == Init /\ [][Next]_vars

\* The single thread of control always takes its next step.
FairSpec == Spec /\ WF_vars(Next)

TypeOK ==
  /\ pc \in {"start", "auth", "client", "list", "for_coll", "stream", "for_doc",
             "commit", "final", "returned", "crashed", "exited"}
  /\ run \in 1..MaxRuns
  /\ count_in_batch \in 0..batch_size
  /\ collection_count \in 0..MaxDocs
  /\ total_deleted \in 0..MaxDocs
  /\ success \in {"none", "True", "False"}
  /\ exitCode \in {-1, 0, 1}

\* ------------------------------------------------- views of the history
CommitsOf(c) == SelectSeq(calls, LAMBDA r : r.op = "commit" /\ r.coll = c)
OkCommits == SelectSeq(calls, IsOkCommit)
AllCommits == SelectSeq(calls, IsCommit)
Summaries == SelectSeq(out, IsSummary)
TotalLines == SelectSeq(out, LAMBDA l : l.kind = "total")
StreamsOf(c) == SelectSeq(calls, LAMBDA r : r.op = "stream" /\ r.coll = c /\ r.ok)
Sizes(s) == [i \in 1..Len(s) |-> s[i].n]
Summarised(c) == \E i \in 1..Len(out) : out[i].kind = "summary" /\ out[i].coll = c
RemoteOps(ops) == {i \in 1..Len(calls) : calls[i].op \in ops}
AllCallsOk == \A i \in 1..Len(calls) : calls[i].ok
CeilDiv(n, d) == (n + d - 1) \div d
Terminated == pc \in {"returned", "crashed", "exited"}

\* The informal state machine of the runner, read off the position.
Phase ==
  CASE pc = "start" -> "Start"
    [] pc \in {"auth", "client"} -> "Authenticating"
    [] pc = "list" \/ (pc = "for_coll" /\ collection_name = 0) -> "Enumerating"
    [] pc \in {"stream", "for_doc", "commit", "final"}
         \/ (pc = "for_coll" /\ collection_name # 0) -> "DeletingCollection"
    [] Terminated /\ success = "True" -> "Done"
    [] OTHER -> "Failed"

\* ------------------------------------------------------------------ C1
\* C1: for every collection whose processing completed (its stream of N
\* documents was consumed and every remote call succeeded), the number of
\* batch.commit() calls issued for it is ceil(N/100) (0 when N = 0) and the
\* sizes of its committed batches sum to N.
C1_CommitCount ==
  \A c \in DOMAIN store :
    Summarised(c) =>
      /\ Len(StreamsOf(c)) = 1
      /\ LET N == StreamsOf(c)[1].n IN
           /\ Len(CommitsOf(c)) = (IF N > 0 THEN CeilDiv(N, 100) ELSE 0)
           /\ SumN(CommitsOf(c)) = N
           /\ \A i \in 1..Len(CommitsOf(c)) : CommitsOf(c)[i].ok

\* The scenario of the specification: "users" (150) then "logs" (0).
C1_Witness ==
  /\ pc = "exited" /\ exitCode = 0 /\ run = 1
  /\ Len(store0) = 2
  /\ Cardinality(store0[1]) = 150 /\ store0[2] = {}
  /\ Sizes(CommitsOf(1)) = <<100, 50>>
  /\ CommitsOf(2) = <<>>
  /\ Sizes(Summaries) = <<150, 0>>
  /\ total_deleted = 150

\* ------------------------------------------------------------------ C2
\* C2: every batch passed to batch.commit(), whether the commit succeeds or
\* raises, holds between 1 and 100 pending deletes.
C2_BatchSize ==
  \A i \in 1..Len(calls) :
    calls[i].op = "commit" =>
      /\ calls[i].n = Len(calls[i].refs)
      /\ calls[i].n >= 1
      /\ calls[i].n <= 100

C2_Witness ==
  /\ \E i \in 1..Len(calls) : calls[i].op = "commit" /\ calls[i].n = 100
  /\ \E i \in 1..Len(calls) : calls[i].op = "commit" /\ calls[i].n = 1
  /\ \E c \in DOMAIN store : Summarised(c) /\ CommitsOf(c) = <<>>

\* ------------------------------------------------------------------ C3
\* C3: when a run completes successfully, the grand total it prints equals
\* the sum of the per-collection counts printed, which equals the sum of
\* the sizes of all batches committed in the run.
C3_TotalAccounting ==
  success = "True" =>
    /\ Len(TotalLines) = 1
    /\ TotalLines[1].n = total_deleted
    /\ TotalLines[1].n = SumN(Summaries)
    /\ SumN(Summaries) = SumN(OkCommits)
    /\ Len(Summaries) = Len(store0)

C3_Witness ==
  /\ success = "True"
  /\ Len(Summaries) = 2
  /\ Summaries[1].n = 101 /\ Summaries[2].n = 150
  /\ TotalLines[1].n = 251

\* ------------------------------------------------------------------ C4
\* C4: if authentication fails, the run issues no list-collections, no
\* stream-documents and no batch-commit call (nor any delete), and
\* clear_firestore returns False.
C4_AuthShortCircuit ==
  failedAt = "auth" =>
    /\ RemoteOps({"client", "list", "next", "stream", "pull", "commit"}) = {}
    /\ deletes = 0
    /\ success = "False"
    /\ (pc = "exited" => exitCode = 1)

C4_Witness ==
  /\ failedAt = "auth"
  /\ pc = "exited"
  /\ ~StoreEmpty(store)

\* ------------------------------------------------------------------ C5
\* C5: the exit status is 0 exactly when every remote call of the run
\* succeeded and 1 when any of them raised; an error at any site becomes
\* the result False and never leaves clear_firestore unhandled.
C5_ExitStatus ==
  /\ ~escaped
  /\ pc # "crashed"
  /\ (failedAt # "none" /\ Terminated => success = "False")
  /\ (pc = "exited" =>
        /\ exitCode \in {0, 1}
        /\ (exitCode = 0 <=> AllCallsOk)
        /\ (exitCode = 1 <=> failedAt # "none")
        /\ (exitCode = 0 <=> success = "True"))

C5_Witness ==
  /\ pc = "exited"
  /\ exitCode = 1
  /\ failedAt = "commit"
  /\ Len(OkCommits) >= 1

\* ------------------------------------------------------------------ C6
\* C6: a run that follows a successful run starts against an empty store;
\* a run that starts against an empty store issues no batch.delete and no
\* batch.commit, and when its remote calls succeed it prints total 0 and
\* returns True (exit status 0).
C6_Idempotence ==
  /\ (run >= 2 => StoreEmpty(store0))
  /\ (StoreEmpty(store0) =>
        /\ deletes = 0
        /\ AllCommits = <<>>
        /\ store = store0
        /\ (Terminated /\ failedAt = "none" =>
              /\ success = "True"
              /\ TotalLines = <<Line("total", 0, 0)>>
              /\ SumN(Summaries) = 0
              /\ (pc = "exited" => exitCode = 0)))

C6_Witness ==
  /\ run = 2
  /\ pc = "exited"
  /\ exitCode = 0
  /\ Len(store0) = 2
  /\ Len(Summaries) = 2

\* ------------------------------------------------------------------ C7
\* C7: if collection enumeration raises before yielding a collection, the
\* run prints no per-collection line, returns False and exits with 1.
EnumerationFailed ==
  \/ failedAt = "list"
  \/ (failedAt = "next" /\ collection_name = 0)

C7_EnumerationError ==
  EnumerationFailed =>
    /\ \A i \in 1..Len(out) :
         out[i].kind \notin {"processing", "batch", "final", "summary"}
    /\ success = "False"
    /\ RemoteOps({"stream", "commit"}) = {}
    /\ (pc = "exited" => exitCode = 1)

C7_Witness ==
  /\ failedAt = "list"
  /\ pc = "exited"
  /\ ~StoreEmpty(store)

\* ------------------------------------------------------------------ C8
\* The step issues a batch.commit() call (successful or not).
CommitIssued ==
  /\ Len(calls') = Len(calls) + 1
  /\ calls'[Len(calls')].op = "commit"

CommitSucceeded == CommitIssued /\ calls'[Len(calls')].ok

\* A document is pulled from the stream only while the batch is not full,
\* and every commit of a collection other than its last has size 100.
C8_State ==
  /\ (pc = "for_doc" => count_in_batch < 100 /\ Len(batch) = count_in_batch)
  /\ (pc = "commit" => count_in_batch = 100 /\ Len(batch) = 100)
  /\ \A i \in 1..Len(calls) : \A j \in (i + 1)..Len(calls) :
       (calls[i].op = "commit" /\ calls[j].op = "commit"
          /\ calls[i].coll = calls[j].coll) => calls[i].n = 100

\* A commit inside the loop is of exactly 100 deletes, leaves a fresh empty
\* batch with its counter at 0 and prints the size just committed; a
\* commit of fewer than 100 is issued only once the stream is exhausted.
C8_Step ==
  /\ (CommitIssued /\ docs # {} => calls'[Len(calls')].n = 100)
  /\ (CommitIssued /\ calls'[Len(calls')].n < 100 => docs = {} /\ pc = "final")
  /\ (CommitIssued /\ pc = "commit" => docs' = docs /\ deletes' = deletes)
  /\ (CommitSucceeded /\ pc = "commit" =>
        /\ batch' = <<>>
        /\ count_in_batch' = 0
        /\ out' = Append(out, Line("batch", collection_name, 100))
        /\ pc' = "for_doc")

\* C8: as soon as the pending-delete count reaches 100 the batch is
\* committed before the next document is pulled; after the commit the
\* buffer is empty with its counter at 0 and the progress line carries 100;
\* a partial batch is committed only after the stream is exhausted, so
\* every commit of a collection but its last has size exactly 100.
C8_CommitAtCapacity == []C8_State /\ [][C8_Step]_vars

C8_Witness ==
  /\ pc = "for_coll"
  /\ Sizes(CommitsOf(collection_name)) = <<100, 100, 1>>
  /\ count_in_batch = 1

\* ------------------------------------------------------------------ C9
\* The transitions the informal state machine allows within one run.
PhaseOrder ==
  {<<"Start", "Authenticating">>,
   <<"Authenticating", "Authenticating">>, <<"Authenticating", "Enumerating">>,
   <<"Enumerating", "Enumerating">>, <<"Enumerating", "DeletingCollection">>,
   <<"Enumerating", "Done">>,
   <<"DeletingCollection", "DeletingCollection">>, <<"DeletingCollection", "Done">>,
   <<"Authenticating", "Failed">>, <<"Enumerating", "Failed">>,
   <<"DeletingCollection", "Failed">>,
   <<"Done", "Done">>, <<"Failed", "Failed">>}

C9_Step ==
  /\ (run' = run => <<Phase, Phase'>> \in PhaseOrder)
  /\ (run' = run => ((failedAt # "none") <=> (Phase = "Failed")))
  /\ (failedAt # "none" =>
        /\ calls' = calls
        /\ deletes' = deletes
        /\ store' = store
        /\ run' = run
        /\ failedAt' = failedAt)

\* C9: a run goes Start -> Authenticating -> Enumerating ->
\* DeletingCollection* -> Done, goes to Failed on the first error, and
\* eventually reaches Done or Failed; both are terminal, and after the
\* first failing remote call no further remote call is issued.
C9_StateMachine ==
  /\ [][C9_Step]_vars
  /\ \A r \in 1..MaxRuns :
       (run = r /\ pc = "start") ~> (run = r /\ Phase \in {"Done", "Failed"})

C9_Witness ==
  /\ Phase = "Failed"
  /\ pc = "exited"
  /\ failedAt = "pull"
  /\ collection_name = 2
  /\ Len(OkCommits) = 3

\* ----------------------------------------------------------------- C10
BatchRefs(r) == Range(r.refs)

\* The documents held by the buffer that was never committed.
Uncommitted == IF failedAt \in {"pull", "commit"} THEN Range(batch) ELSE {}

\* C10: every document reference is in at most one committed batch and
\* every committed batch holds references of one collection only; on a
\* successful run every document present at the start is deleted exactly
\* once and every collection is empty; on a failed run the documents of the
\* uncommitted buffer (at most 100, counted in collection_count) are still
\* in the store and the committed batches stay deleted.
C10_ExactlyOnce ==
  LET alls == AllCommits
      oks == OkCommits
      allRefs == [i \in 1..Len(alls) |-> BatchRefs(alls[i])]
      okRefs == [i \in 1..Len(oks) |-> BatchRefs(oks[i])]
      deleted == UNION {okRefs[i] : i \in 1..Len(oks)}
  IN
  /\ \A i \in 1..Len(alls) :
       /\ Cardinality(allRefs[i]) = Len(alls[i].refs)
       /\ \A ref \in allRefs[i] : ref[1] = alls[i].coll
       /\ \A j \in (i + 1)..Len(alls) : allRefs[i] \cap allRefs[j] = {}
  /\ \A ref \in deleted : ref[2] \in store0[ref[1]] /\ ref[2] \notin store[ref[1]]
  /\ \A c \in DOMAIN store :
       store[c] = {d \in store0[c] : <<c, d>> \notin deleted}
  /\ (success = "True" =>
        /\ StoreEmpty(store)
        /\ \A c \in DOMAIN store0 : \A d \in store0[c] :
             Cardinality({i \in 1..Len(oks) : <<c, d>> \in okRefs[i]}) = 1)
  /\ (failedAt \in {"pull", "commit"} =>
        /\ Len(batch) = count_in_batch
        /\ count_in_batch <= 100
        /\ collection_count = SumN(SelectSeq(CommitsOf(collection_name), IsOkCommit))
                                + count_in_batch
        /\ \A ref \in Uncommitted :
             ref[2] \in store[ref[1]] /\ ref \notin deleted)

C10_Witness ==
  /\ pc = "exited"
  /\ failedAt = "commit"
  /\ collection_name = 2
  /\ Len(OkCommits) = 2
  /\ Cardinality(Uncommitted) = 100
  /\ store[1] = {}
  /\ Cardinality(store[2]) = 101
====
